---- MODULE Spec2Model ----
(***************************************************************************)
(* The paper page of 23-flask-starter: three module-level record arrays    *)
(* (REFERENCES, KEY_FINDINGS, AUTHORS), the App component that renders     *)
(* them into a document, the framer-motion entrance animations declared on *)
(* the article and on the finding cards, the header's links and button,    *)
(* and the Tailwind configuration object.                                  *)
(*                                                                         *)
(* Text is a TLA+ string and string concatenation is \o.  An element's     *)
(* children are a sequence of nodes [tag, text]; TextContent concatenates  *)
(* them the way the DOM does.  An optional field of a record is a field    *)
(* that is missing from the record's DOMAIN, as in the JavaScript object.  *)
(* Time is counted in ticks of 0.1 s.                                      *)
(***************************************************************************)
EXTENDS Integers, Sequences, FiniteSets, TLC

VARIABLES
    REFERENCES,      \* the module-level array of references
    KEY_FINDINGS,    \* the module-level array of findings
    AUTHORS,         \* the module-level array of authors
    tailwindConfig,  \* the default export of tailwind.config.js
    mounted,         \* whether App has been mounted
    renders,         \* how many times App has been rendered
    dom,             \* the output of the latest render of App
    firstDom,        \* the output of the first render of App
    now,             \* ticks elapsed since mount, while animations run
    style,           \* motion element -> its current [opacity, y]
    fragment,        \* the URL's fragment: <<>> none, <<f>> fragment f
    target,          \* the element the fragment navigation indicates
    scrollY,         \* the viewport's scroll position
    focus            \* the focused element

data == <<REFERENCES, KEY_FINDINGS, AUTHORS>>
browser == <<fragment, target, scrollY, focus>>
vars == <<REFERENCES, KEY_FINDINGS, AUTHORS, tailwindConfig, mounted, renders,
          dom, firstDom, now, style, fragment, target, scrollY, focus>>

----------------------------------------------------------------------------
(* Bounds of the model.                                                    *)

\* App is re-rendered at most this many times.
MaxRenders == 3

\* The user scrolls among the positions 0..MaxScroll.
MaxScroll == 2

\* Ticks a transition without a duration takes (the animation library's
\* default, which the repository does not set).
DefaultDuration == 3

----------------------------------------------------------------------------
(* The static data.                                                        *)

REFERENCES_DATA ==
    << [id |-> 1, authors |-> "Smith, J., & Johnson, K.",
        title |-> "Scalable API Architecture Patterns",
        journal |-> "Journal of Systems Architecture",
        year |-> "2024", volume |-> "142", pages |-> "102889"],
       [id |-> 2, authors |-> "Chen, L., et al.",
        title |-> "Async Performance Benchmarks in Python",
        journal |-> "Proceedings of the 2024 Python Conference",
        year |-> "2024", pages |-> "234-251"],
       [id |-> 3, authors |-> "Williams, R., & Davis, M.",
        title |-> "Microservices Communication Patterns",
        journal |-> "IEEE Software",
        year |-> "2023", volume |-> "40", issue |-> "3", pages |-> "45-58"] >>

KEY_FINDINGS_DATA ==
    << [metric |-> "Response Latency", value |-> "42%",
        description |-> "Reduction in median response time compared to traditional WSGI implementations",
        source |-> "[2]"],
       [metric |-> "Throughput", value |-> "3.2x",
        description |-> "Higher request throughput under concurrent load conditions",
        source |-> "[2]"],
       [metric |-> "Memory Usage", value |-> "28%",
        description |-> "Lower memory footprint during sustained operation",
        source |-> "[1]"] >>

AUTHORS_DATA ==
    << [name |-> "Dr. Sarah Mitchell",
        affiliation |-> "Department of Computer Science, Stanford University"],
       [name |-> "Prof. James Chen",
        affiliation |-> "Software Systems Laboratory, MIT"],
       [name |-> "Dr. Emily Watson",
        affiliation |-> "Data Science Institute, Oxford University"] >>

\* The configuration with a third color token under theme.extend.colors.
TailwindConfigThreeColors ==
    [content |-> << "./index.html", "./src/**/*.{js,ts,jsx,tsx}" >>,
     theme |-> [extend |->
        [colors |-> [flask |-> "#0891b2", dark |-> "#020617", light |-> "#fdfbf7"],
         fontFamily |-> [mono |-> << "JetBrains Mono", "Fira Code", "monospace" >>],
         boxShadow |-> ("neon" :> "0 0 15px rgba(0, 180, 216, 0.2)")
                       @@ ("neon-strong" :> "0 0 20px rgba(0, 180, 216, 0.3)")]],
     plugins |-> << >>]

TailwindConfig ==
    [content |-> << "./index.html", "./src/**/*.{js,ts,jsx,tsx}" >>,
     theme |-> [extend |->
        [colors |-> [flask |-> "#0891b2", dark |-> "#020617"],
         fontFamily |-> [mono |-> << "JetBrains Mono", "Fira Code", "monospace" >>],
         boxShadow |-> ("neon" :> "0 0 15px rgba(0, 180, 216, 0.2)")
                       @@ ("neon-strong" :> "0 0 20px rgba(0, 180, 216, 0.3)")]],
     plugins |-> << >>]

----------------------------------------------------------------------------
(* JavaScript and DOM helpers.                                             *)

\* Join as a loop that appends sep after every element, the last included.
RECURSIVE JoinTrailing(_, _)
JoinTrailing(s, sep) ==
    IF Len(s) = 0 THEN ""
    ELSE JoinTrailing(SubSeq(s, 1, Len(s) - 1), sep) \o s[Len(s)] \o sep

\* Array.prototype.join: "" for an empty array, else the elements with sep
\* between each two neighbours.
RECURSIVE Join(_, _)
Join(s, sep) ==
    IF Len(s) = 0 THEN ""
    ELSE IF Len(s) = 1 THEN s[1]
    ELSE Join(SubSeq(s, 1, Len(s) - 1), sep) \o sep \o s[Len(s)]

\* The test written as `'f' in obj`: an empty string counts as present.
TruthyDefined(obj, f) == f \in DOMAIN obj

\* The truthiness test `obj.f ? a : b` on a text field: a missing field is
\* undefined and an empty string is falsy.
Truthy(obj, f) == f \in DOMAIN obj /\ obj[f] # ""

Digit(d) ==
    CASE d = 0 -> "0" [] d = 1 -> "1" [] d = 2 -> "2" [] d = 3 -> "3"
      [] d = 4 -> "4" [] d = 5 -> "5" [] d = 6 -> "6" [] d = 7 -> "7"
      [] d = 8 -> "8" [] d = 9 -> "9"

\* How React prints a non-negative integer child: its decimal digits.
RECURSIVE NumberToString(_)
NumberToString(n) ==
    IF n < 10 THEN Digit(n) ELSE NumberToString(n \div 10) \o Digit(n % 10)

TextNode(s) == [tag |-> "#text", text |-> s]
Em(s) == [tag |-> "em", text |-> s]

\* Node.textContent of an element with the given children.
RECURSIVE TextContent(_)
TextContent(children) ==
    IF Len(children) = 0 THEN ""
    ELSE children[1].text \o TextContent(Tail(children))

----------------------------------------------------------------------------
(* What App renders.                                                       *)

\* The header: five links, each with href "#", and a button without handler.
RenderHeader ==
    [links |-> << [text |-> "Abstract", href |-> "#"],
                  [text |-> "Introduction", href |-> "#"],
                  [text |-> "Methods", href |-> "#"],
                  [text |-> "Results", href |-> "#"],
                  [text |-> "Discussion", href |-> "#"] >>,
     button |-> [text |-> "PDF"]]

\* The author block: one line of names, one line of affiliations.
RenderAuthorBlock(authors) ==
    [name |-> Join([i \in 1..Len(authors) |-> authors[i].name], ", "),
     affiliation |-> Join([i \in 1..Len(authors) |-> authors[i].affiliation], "; ")]

\* The props of the motion.article.  Opacity is in percent (1 is 100).
ArticleMotion ==
    [initial |-> [opacity |-> 0, y |-> 20],
     animate |-> [opacity |-> 100, y |-> 0],
     transition |-> [delay |-> 0, duration |-> 6]]

\* The props of the motion.div of the finding with 0-based index idx:
\* delay idx * 0.1 s, no duration given.
CardMotion(idx) ==
    [initial |-> [opacity |-> 0, y |-> 20],
     animate |-> [opacity |-> 100, y |-> 0],
     transition |-> [delay |-> idx, duration |-> DefaultDuration]]

\* The cards with the value reformatted (a "%" appended) on the way out.
RenderFindingsFormatted(findings) ==
    [i \in 1..Len(findings) |->
        [key |-> i - 1,
         motion |-> CardMotion(i - 1),
         value |-> findings[i].value \o "%",
         metric |-> findings[i].metric,
         description |-> findings[i].description,
         source |-> findings[i].source]]

\* One card per finding, in array order, keyed by the index.
RenderFindings(findings) ==
    [i \in 1..Len(findings) |->
        [key |-> i - 1,
         motion |-> CardMotion(i - 1),
         value |-> findings[i].value,
         metric |-> findings[i].metric,
         description |-> findings[i].description,
         source |-> findings[i].source]]

\* Table 1 without its last body row.
RenderTableShort ==
    [head |-> << "Metric", "Traditional WSGI", "FlaskStack (Async)", "Improvement" >>,
     body |-> << << "Median Latency (p50)", "45ms", "26ms", "42%" >>,
                 << "99th Percentile (p99)", "128ms", "67ms", "48%" >>,
                 << "Requests/Second", "2,450", "7,840", "3.2x" >> >>]

\* Table 1: the header row and the four literal body rows.
RenderTable ==
    [head |-> << "Metric", "Traditional WSGI", "FlaskStack (Async)", "Improvement" >>,
     body |-> << << "Median Latency (p50)", "45ms", "26ms", "42%" >>,
                 << "99th Percentile (p99)", "128ms", "67ms", "48%" >>,
                 << "Requests/Second", "2,450", "7,840", "3.2x" >>,
                 << "Memory (steady state)", "256MB", "184MB", "28%" >> >>]

\* The children of the citation span of one reference.
CitationChildren(ref) ==
    << TextNode(ref.authors), TextNode(". ("), TextNode(ref.year),
       TextNode("). "), Em(ref.title), TextNode(". "), TextNode(ref.journal),
       TextNode(IF Truthy(ref, "volume") THEN ", " \o ref.volume ELSE ""),
       TextNode(IF Truthy(ref, "issue") THEN "(" \o ref.issue \o ")" ELSE ""),
       TextNode(IF Truthy(ref, "pages") THEN ", " \o ref.pages ELSE ""),
       TextNode(".") >>

\* One reference item: the number span and the citation span.
ReferenceItem(ref) ==
    [key |-> ref.id,
     number |-> << TextNode("["), TextNode(NumberToString(ref.id)), TextNode("]") >>,
     citation |-> CitationChildren(ref)]

\* The items in reverse array order.
RenderReferencesReversed(refs) ==
    [i \in 1..Len(refs) |-> ReferenceItem(refs[Len(refs) + 1 - i])]

\* One item per reference, in array order.
RenderReferences(refs) == [i \in 1..Len(refs) |-> ReferenceItem(refs[i])]

\* The inline markers with the introduction citing a fourth reference.
RenderInlineCitationsDangling ==
    [abstract |-> "[1]", introduction |-> "[4]", discussion |-> "[2]"]

\* The inline citation markers of the abstract, introduction and discussion.
RenderInlineCitations ==
    [abstract |-> "[1]", introduction |-> "[3]", discussion |-> "[2]"]

\* The element tree App returns.  No element carries an id attribute.
App ==
    [header |-> RenderHeader,
     motion |-> ArticleMotion,
     authorBlock |-> RenderAuthorBlock(AUTHORS),
     inline |-> RenderInlineCitations,
     findings |-> RenderFindings(KEY_FINDINGS),
     table |-> RenderTable,
     references |-> RenderReferences(REFERENCES),
     ids |-> {}]

----------------------------------------------------------------------------
(* The entrance animations.                                                *)

Clamp(x, lo, hi) == IF x < lo THEN lo ELSE IF x > hi THEN hi ELSE x

\* The tween without the clamp: it keeps extrapolating after the duration.
StyleAtUnclamped(m, t) ==
    LET p == IF t < m.transition.delay THEN 0 ELSE t - m.transition.delay
        d == m.transition.duration
        Tween(from, to) == from + ((to - from) * p) \div d
    IN  [opacity |-> Tween(m.initial.opacity, m.animate.opacity),
         y |-> Tween(m.initial.y, m.animate.y)]

\* The value a motion element shows t ticks after mount: its initial value
\* until the delay has passed, then a tween to the animate value over the
\* duration, then the animate value.  (The tween is linear here; the
\* library's easing changes the values in between, not the two ends.)
StyleAt(m, t) ==
    LET p == Clamp(t - m.transition.delay, 0, m.transition.duration)
        d == m.transition.duration
        Tween(from, to) == from + ((to - from) * p) \div d
    IN  [opacity |-> Tween(m.initial.opacity, m.animate.opacity),
         y |-> Tween(m.initial.y, m.animate.y)]

\* The style of every motion element of tree d at tick t.
Styles(d, t) ==
    [article |-> StyleAt(d.motion, t),
     cards |-> [i \in 1..Len(d.findings) |-> StyleAt(d.findings[i].motion, t)]]

EndOf(m) == m.transition.delay + m.transition.duration

\* The tick at which the last animation of tree d completes.
AnimEnd(d) ==
    LET ends == {EndOf(d.motion)} \cup {EndOf(d.findings[i].motion) : i \in 1..Len(d.findings)}
    IN  CHOOSE e \in ends : \A f \in ends : f <= e

----------------------------------------------------------------------------
(* The browser.                                                            *)

NoTarget == "none"
Body == "body"

\* The fragment of an href of the page: "#" has the empty fragment.
HrefFragment(href) == IF href = "#" THEN "" ELSE href

\* The element a fragment indicates: the element with that id, if any.
TargetOf(d, frag) == IF frag \in d.ids THEN frag ELSE NoTarget

\* Where navigating to a fragment scrolls: to the top of the document for
\* the empty fragment, to the indicated element (each stands at position
\* MaxScroll here) if there is one, and nowhere otherwise.
ScrollOf(d, frag, y) ==
    IF frag = "" THEN 0 ELSE IF frag \in d.ids THEN MaxScroll ELSE y

----------------------------------------------------------------------------
(* Initial state: the modules are loaded, nothing is mounted.              *)

NoDom == [mounted |-> FALSE]
NoStyle == [mounted |-> FALSE]

InitPage ==
    /\ tailwindConfig = TailwindConfig
    /\ mounted = FALSE
    /\ renders = 0
    /\ dom = NoDom
    /\ firstDom = NoDom
    /\ now = 0
    /\ style = NoStyle
    /\ fragment = << >>
    /\ target = NoTarget
    /\ scrollY = 0
    /\ focus = Body

Init ==
    /\ REFERENCES = REFERENCES_DATA
    /\ KEY_FINDINGS = KEY_FINDINGS_DATA
    /\ AUTHORS = AUTHORS_DATA
    /\ InitPage

\* A field that may be missing: << >> for missing, << v >> for value v.
OptionalField(f, opt) == IF opt = << >> THEN << >> ELSE f :> opt[1]

\* References that differ in which of volume, issue and pages they carry,
\* each missing, empty or filled, and in the number of digits of the id.
ReferenceInputs ==
    { [id |-> n, authors |-> "Williams, R., & Davis, M.",
       title |-> "Microservices Communication Patterns",
       journal |-> "IEEE Software", year |-> "2023"]
         @@ OptionalField("volume", v) @@ OptionalField("issue", i)
         @@ OptionalField("pages", p) :
      n \in {3, 12},
      v \in {<< >>, << "" >>, << "40" >>},
      i \in {<< >>, << "" >>, << "3" >>},
      p \in {<< >>, << "" >>, << "45-58" >>} }

\* The page with any one reference of ReferenceInputs as its REFERENCES.
InitRef ==
    /\ REFERENCES \in { << r >> : r \in ReferenceInputs }
    /\ KEY_FINDINGS = KEY_FINDINGS_DATA
    /\ AUTHORS = AUTHORS_DATA
    /\ InitPage

----------------------------------------------------------------------------
(* Actions.                                                                *)

\* Array.prototype.reverse
Reverse(s) == [i \in 1..Len(s) |-> s[Len(s) + 1 - i]]

\* A mount that first sorts REFERENCES in place, newest id first (here the
\* reverse of the array), and renders the sorted array.
MountSortingInPlace ==
    /\ ~mounted
    /\ mounted' = TRUE
    /\ renders' = 1
    /\ REFERENCES' = Reverse(REFERENCES)
    /\ dom' = [App EXCEPT !.references = RenderReferences(Reverse(REFERENCES))]
    /\ firstDom' = dom'
    /\ now' = 0
    /\ style' = Styles(App, 0)
    /\ UNCHANGED <<KEY_FINDINGS, AUTHORS, tailwindConfig, browser>>

\* The first render of App; the motion elements take their initial style.
Mount ==
    /\ ~mounted
    /\ mounted' = TRUE
    /\ renders' = 1
    /\ dom' = App
    /\ firstDom' = App
    /\ now' = 0
    /\ style' = Styles(App, 0)
    /\ UNCHANGED <<data, tailwindConfig, browser>>

\* A render that keeps a module-level count of the renders and shows it as
\* the text of the PDF button.
RenderCounting ==
    /\ mounted
    /\ renders < MaxRenders
    /\ renders' = renders + 1
    /\ dom' = [App EXCEPT !.header.button.text = "PDF " \o NumberToString(renders')]
    /\ UNCHANGED <<data, tailwindConfig, mounted, firstDom, now, style, browser>>

\* A later render of App.  The animate props are the same, so no animation
\* restarts.
Render ==
    /\ mounted
    /\ renders < MaxRenders
    /\ renders' = renders + 1
    /\ dom' = App
    /\ UNCHANGED <<data, tailwindConfig, mounted, firstDom, now, style, browser>>

\* An animation frame, while some animation is still running.
Frame ==
    /\ mounted
    /\ now < AnimEnd(dom)
    /\ now' = now + 1
    /\ style' = Styles(dom, now + 1)
    /\ UNCHANGED <<data, tailwindConfig, mounted, renders, dom, firstDom, browser>>

\* A link with a click handler that scrolls the named section into view.
ClickNavIntoView(i) ==
    /\ mounted
    /\ fragment' = << dom.header.links[i].text >>
    /\ target' = dom.header.links[i].text
    /\ scrollY' = MaxScroll
    /\ focus' = "link" \o NumberToString(i)
    /\ UNCHANGED <<data, tailwindConfig, mounted, renders, dom, firstDom, now, style>>

\* The user activates the i-th link of the header (sticky: always in view).
ClickNav(i) ==
    /\ mounted
    /\ LET frag == HrefFragment(dom.header.links[i].href)
       IN  /\ fragment' = << frag >>
           /\ target' = TargetOf(dom, frag)
           /\ scrollY' = ScrollOf(dom, frag, scrollY)
    /\ focus' = "link" \o NumberToString(i)
    /\ UNCHANGED <<data, tailwindConfig, mounted, renders, dom, firstDom, now, style>>

\* The user activates the PDF button: it has no handler and no form.
ClickDownload ==
    /\ mounted
    /\ focus' = "button"
    /\ UNCHANGED <<data, tailwindConfig, mounted, renders, dom, firstDom, now, style,
                   fragment, target, scrollY>>

\* The user scrolls the page.
Scroll(y) ==
    /\ mounted
    /\ y # scrollY
    /\ scrollY' = y
    /\ UNCHANGED <<data, tailwindConfig, mounted, renders, dom, firstDom, now, style,
                   fragment, target, focus>>

ClickAnyNav == \E i \in 1..5 : ClickNav(i)
ScrollAny == \E y \in 0..MaxScroll : Scroll(y)

Next ==
    \/ Mount
    \/ Render
    \/ Frame
    \/ ClickAnyNav
    \/ ClickDownload
    \/ ScrollAny

Spec == Init /\ [][Next]_vars

\* Rendering alone, over any reference.
NextRef ==
    \/ Mount
    \/ Render

SpecRef == InitRef /\ [][NextRef]_vars

\* The browser keeps delivering animation frames while an animation runs,
\* and the page is mounted once loaded.
FairSpec == Spec /\ WF_vars(Frame) /\ WF_vars(Mount)

----------------------------------------------------------------------------
(* Properties.                                                             *)

\* The ids of refs, and the k-th smallest of them.
IdsOf(refs) == {refs[i].id : i \in 1..Len(refs)}
KthId(refs, k) ==
    CHOOSE n \in IdsOf(refs) : Cardinality({m \in IdsOf(refs) : m < n}) = k - 1

\* The text a reference item displays as its number.
NumberText(item) == TextContent(item.number)

\* C1: the rendered references list has exactly one item per entry of
\* REFERENCES, the item's displayed number "[n]" is that entry's id, and the
\* items stand in ascending id order: the k-th item shows the k-th smallest
\* id, so no number is missing and none is shown twice.
C1_ReferencesNumbered ==
    mounted =>
        /\ Len(dom.references) = Len(REFERENCES)
        /\ Cardinality(IdsOf(REFERENCES)) = Len(REFERENCES)
        /\ \A k \in 1..Len(dom.references) :
              NumberText(dom.references[k]) = "[" \o ToString(KthId(REFERENCES, k)) \o "]"
        /\ \A k \in 1..Len(REFERENCES) :
              Cardinality({j \in 1..Len(dom.references) :
                  NumberText(dom.references[j]) = "[" \o ToString(REFERENCES[k].id) \o "]"}) = 1

C1_Witness ==
    /\ mounted
    /\ Len(dom.references) = 3
    /\ NumberText(dom.references[1]) = "[1]"
    /\ NumberText(dom.references[3]) = "[3]"

\* The (Traditional WSGI, FlaskStack, Improvement) cells of the body rows.
TableCells(d) == [i \in 1..Len(d.table.body) |-> SubSeq(d.table.body[i], 2, 4)]

\* C2 as stated: the table body has exactly 4 rows whose cells are
\* (45ms,26ms,42%), (128ms,67ms,48%), (2450,7840,3.2x), (256MB,184MB,28%).
C2_TableAsStated ==
    mounted =>
        TableCells(dom) = << << "45ms", "26ms", "42%" >>,
                             << "128ms", "67ms", "48%" >>,
                             << "2450", "7840", "3.2x" >>,
                             << "256MB", "184MB", "28%" >> >>

\* C2 amended: the table body has exactly 4 rows whose cells are
\* (45ms,26ms,42%), (128ms,67ms,48%), (2,450 and 7,840 and 3.2x, the two
\* counts written with a thousands separator), (256MB,184MB,28%).
C2_TableLiteral ==
    mounted =>
        /\ Len(dom.table.body) = 4
        /\ TableCells(dom) = << << "45ms", "26ms", "42%" >>,
                                << "128ms", "67ms", "48%" >>,
                                << "2,450", "7,840", "3.2x" >>,
                                << "256MB", "184MB", "28%" >> >>

C2_Witness ==
    /\ mounted
    /\ renders >= 2
    /\ dom.table.body[3][2] = "2,450"
    /\ dom.table.body[3][3] = "7,840"

\* C3: the finding grid has exactly 3 cards, the i-th card is for the i-th
\* entry of KEY_FINDINGS, and it shows that entry's value and metric strings
\* unchanged.
C3_FindingCardsVerbatim ==
    mounted =>
        /\ Len(dom.findings) = 3
        /\ Len(dom.findings) = Len(KEY_FINDINGS)
        /\ \A i \in 1..Len(dom.findings) :
              /\ dom.findings[i].value = KEY_FINDINGS[i].value
              /\ dom.findings[i].metric = KEY_FINDINGS[i].metric
        /\ [i \in 1..3 |-> dom.findings[i].value] = << "42%", "3.2x", "28%" >>

C3_Witness ==
    /\ mounted
    /\ dom.findings[2].value = "3.2x"
    /\ dom.findings[2].metric = "Throughput"

\* s[1], sep, s[2], sep, ..., s[n] concatenated from the right.
RECURSIVE Separated(_, _)
Separated(s, sep) ==
    IF Len(s) = 0 THEN ""
    ELSE IF Len(s) = 1 THEN s[1]
    ELSE s[1] \o sep \o Separated(Tail(s), sep)

RECURSIVE TotalLen(_)
TotalLen(s) == IF Len(s) = 0 THEN 0 ELSE Len(s[1]) + TotalLen(Tail(s))

\* C4: the author block's name line is the names of AUTHORS in array order
\* with ", " between neighbours, and its affiliation line is the affiliations
\* in array order with "; " between neighbours: every author once, nothing
\* before the first item or after the last.
C4_AuthorBlockJoined ==
    mounted =>
        LET names == [i \in 1..Len(AUTHORS) |-> AUTHORS[i].name]
            affs == [i \in 1..Len(AUTHORS) |-> AUTHORS[i].affiliation]
        IN  /\ dom.authorBlock.name = Separated(names, ", ")
            /\ dom.authorBlock.affiliation = Separated(affs, "; ")
            /\ Len(dom.authorBlock.name) = TotalLen(names) + 2 * (Len(names) - 1)
            /\ Len(dom.authorBlock.affiliation) = TotalLen(affs) + 2 * (Len(affs) - 1)
            /\ dom.authorBlock.name =
                  "Dr. Sarah Mitchell, Prof. James Chen, Dr. Emily Watson"

C4_Witness ==
    /\ mounted
    /\ Len(AUTHORS) = 3
    /\ dom.authorBlock.affiliation =
          "Department of Computer Science, Stanford University; Software Systems Laboratory, MIT; Data Science Institute, Oxford University"

\* C5: every render of App yields the output of the first render.
C5_RenderIdempotent ==
    mounted => dom = firstDom

C5_Witness ==
    /\ mounted
    /\ renders >= 3
    /\ now > 0
    /\ dom = firstDom

\* C6: no step of the page (mount, render, animation frame, click, scroll)
\* changes REFERENCES, KEY_FINDINGS or AUTHORS: their length, order and
\* fields stay what module load made them.
C6_DataReadOnly ==
    [][/\ REFERENCES' = REFERENCES
       /\ KEY_FINDINGS' = KEY_FINDINGS
       /\ AUTHORS' = AUTHORS]_vars

C6_Witness ==
    /\ mounted
    /\ renders >= 2
    /\ focus # Body
    /\ scrollY > 0
    /\ REFERENCES = REFERENCES_DATA
    /\ KEY_FINDINGS = KEY_FINDINGS_DATA
    /\ AUTHORS = AUTHORS_DATA

\* C7: activating a header link or the PDF button leaves the rendered
\* document and the static data as they were and navigates to no section:
\* no element becomes the target, and the viewport stays where it was or
\* returns to the top of the document.
C7_HeaderControlsNoOp ==
    [][(ClickAnyNav \/ ClickDownload) =>
          /\ dom' = dom
          /\ data' = data
          /\ target' = NoTarget
          /\ scrollY' \in {scrollY, 0}]_vars

C7_Witness ==
    /\ mounted
    /\ fragment = << "" >>
    /\ focus = "button"
    /\ target = NoTarget
    /\ renders >= 2

Hidden == [opacity |-> 0, y |-> 20]
Resting == [opacity |-> 100, y |-> 0]

AllHidden ==
    /\ mounted
    /\ style.article = Hidden
    /\ \A i \in 1..Len(style.cards) : style.cards[i] = Hidden

AllAtRest ==
    /\ mounted
    /\ style.article = Resting
    /\ Len(style.cards) = Len(KEY_FINDINGS)
    /\ \A i \in 1..Len(style.cards) : style.cards[i] = Resting

C9_TailwindConfigShape ==
    LET ext == tailwindConfig.theme.extend
    IN  /\ Len(tailwindConfig.content) > 0
        /\ \A i \in 1..Len(tailwindConfig.content) : Len(tailwindConfig.content[i]) > 0
        /\ DOMAIN tailwindConfig.theme = {"extend"}
        /\ DOMAIN ext = {"colors", "fontFamily", "boxShadow"}
        /\ Cardinality(DOMAIN ext.colors) = 2
        /\ Cardinality(DOMAIN ext.fontFamily) = 1
        /\ Cardinality(DOMAIN ext.boxShadow) = 2

C9_Witness ==
    /\ mounted
    /\ tailwindConfig.content = << "./index.html", "./src/**/*.{js,ts,jsx,tsx}" >>
    /\ DOMAIN tailwindConfig.theme.extend.colors = {"flask", "dark"}
    /\ DOMAIN tailwindConfig.theme.extend.boxShadow = {"neon", "neon-strong"}

\* An optional field is present when the reference carries it with a
\* non-empty text.
Present(ref, f) == f \in DOMAIN ref /\ Len(ref[f]) > 0

\* before, the field, after when the field is present, else nothing.
Wrapped(ref, f, before, after) ==
    IF Present(ref, f) THEN before \o ref[f] \o after ELSE ""

ExpectedCitation(ref) ==
    ref.authors \o ". (" \o ref.year \o "). " \o ref.title \o ". " \o ref.journal
      \o Wrapped(ref, "volume", ", ", "") \o Wrapped(ref, "issue", "(", ")")
      \o Wrapped(ref, "pages", ", ", "") \o "."

\* The characters the present optional fields add: the field and its two
\* characters of punctuation.
OptionalLen(ref) ==
    LET L(f) == IF Present(ref, f) THEN Len(ref[f]) + 2 ELSE 0
    IN  L("volume") + L("issue") + L("pages")

\* C10: the citation text of every reference is authors, ". (", year, "). ",
\* title, ". ", journal, then ", volume" if volume is present, "(issue)" if
\* issue is present, ", pages" if pages is present, then "."; an absent
\* field adds no character, and no piece of the text is a separator or a
\* pair of parentheses with nothing in it.
C10_CitationText ==
    mounted =>
        \A k \in 1..Len(REFERENCES) :
            LET ref == REFERENCES[k]
                span == dom.references[k].citation
            IN  /\ TextContent(span) = ExpectedCitation(ref)
                /\ Len(TextContent(span)) =
                      Len(ref.authors) + Len(ref.year) + Len(ref.title)
                        + Len(ref.journal) + 9 + OptionalLen(ref)
                /\ \A n \in 1..Len(span) : span[n].text \notin {", ", "()", "(undefined)", ", undefined"}

C10_Witness ==
    /\ mounted
    /\ Len(REFERENCES) = 1
    /\ "volume" \notin DOMAIN REFERENCES[1]
    /\ Present(REFERENCES[1], "issue")
    /\ "pages" \in DOMAIN REFERENCES[1] /\ REFERENCES[1].pages = ""
    /\ TextContent(dom.references[1].citation) =
          "Williams, R., & Davis, M.. (2023). Microservices Communication Patterns. IEEE Software(3)."

\* Every citation marker the rendered page shows: the source of each finding
\* card and the inline markers of the abstract, introduction and discussion.
MarkersShown(d) ==
    {d.findings[i].source : i \in 1..Len(d.findings)}
      \cup {d.inline.abstract, d.inline.introduction, d.inline.discussion}

\* The marker that names reference id n.
MarkerOf(n) == "[" \o ToString(n) \o "]"

\* C11: every citation marker shown on the page (each finding's source and
\* the inline markers of the abstract, introduction and discussion) is the
\* marker "[n]" of the id n of an entry of REFERENCES, and is the number an
\* item of the rendered references list displays; the ids of REFERENCES are
\* unique and run 1, 2, 3, ... in array order.
C11_CitationsResolve ==
    mounted =>
        /\ \A m \in MarkersShown(dom) :
              /\ \E k \in 1..Len(REFERENCES) : m = MarkerOf(REFERENCES[k].id)
              /\ \E j \in 1..Len(dom.references) : m = NumberText(dom.references[j])
        /\ \A i \in 1..Len(KEY_FINDINGS) :
              \E k \in 1..Len(REFERENCES) : KEY_FINDINGS[i].source = MarkerOf(REFERENCES[k].id)
        /\ Cardinality(IdsOf(REFERENCES)) = Len(REFERENCES)
        /\ \A k \in 1..Len(REFERENCES) : REFERENCES[k].id = k

C11_Witness ==
    /\ mounted
    /\ MarkersShown(dom) = {"[1]", "[2]", "[3]"}
    /\ dom.inline.introduction = "[3]"
    /\ dom.findings[3].source = "[1]"
    /\ Len(REFERENCES) = 3

====
